---------------------------- MODULE Spec2Model ----------------------------
(***************************************************************************)
(* A model of the luxonis "guess a word" game server: the dispatch loop of *)
(* server.rs (main), the connection handling of server_connection.rs       *)
(* (handle_client, send_message, react_to_client_msg), the session state   *)
(* of server_state.rs (Match, ServerState) and the connection tasks of     *)
(* connection.rs (handle_stream).                                          *)
(*                                                                         *)
(* Uuids are drawn from small sets, Players and MatchIds, and              *)
(* Uuid::new_v4 gives the first one not used yet: it never repeats an id.  *)
(***************************************************************************)
EXTENDS Naturals, Sequences, FiniteSets

\* ------------------------------------------------------------------ bounds

\* Guesses recorded on one match.
MaxAttempts == 2
\* Hints stored on one match.
MaxHints == 1
\* Client messages waiting in the dispatch channel.
MaxQueue == 1
\* Messages an outbound channel holds: the capacity of mpsc::channel, which
\* is 100 in connection.rs.
OutboundCapacity == 2

\* ------------------------------------------------------------- input sets

\* The Uuids of connections, in the order handle_client mints them.
PlayerOrder == <<"p1", "p2", "p3">>
Players == {PlayerOrder[i] : i \in DOMAIN PlayerOrder}
\* The Uuids of matches, in the order Match::new mints them.
MatchOrder == <<"m1", "m2">>
MatchIds == {MatchOrder[i] : i \in DOMAIN MatchOrder}
\* Option<Uuid>::None
None == "none"

\* The secret words challengers choose, and the words guessers try.
Secrets == {"apple"}
Words == {"apple", "apply"}
Hints == {"fruit"}
Passwords == {"password", "letmein"}

\* --------------------------------------------------------------- protocol

\* protocol.rs, ClientMessage
AnswerPassword(pw) == [type |-> "AnswerPassword", password |-> pw]
GetOpponents == [type |-> "GetOpponents"]
RequestMatch(opp, w) == [type |-> "RequestMatch", opponent |-> opp, word |-> w]
GuessAttempt(m, g) == [type |-> "GuessAttempt", id |-> m, guess |-> g]
SendHint(m, h) == [type |-> "SendHint", id |-> m, hint |-> h]
GiveUp(m) == [type |-> "GiveUp", id |-> m]
LeaveGame == [type |-> "LeaveGame"]

ClientMessage ==
       {AnswerPassword(pw) : pw \in Passwords}
  \cup {GetOpponents}
  \cup {RequestMatch(o, w) : o \in Players, w \in Secrets}
  \cup {GuessAttempt(m, g) : m \in MatchIds, g \in Words}
  \cup {SendHint(m, h) : m \in MatchIds, h \in Hints}
  \cup {GiveUp(m) : m \in MatchIds}
  \cup {LeaveGame}

\* protocol.rs, ServerMessage (and ClientRequestError as the error strings)
AskPassword == [type |-> "AskPassword"]
AssignId(p) == [type |-> "AssignId", player |-> p]
BadRequest(e) == [type |-> "BadRequest", error |-> e]
ListOpponents(ids) == [type |-> "ListOpponents", ids |-> ids]
MatchAccepted(m) == [type |-> "MatchAccepted", id |-> m]
MatchStarted(m) == [type |-> "MatchStarted", id |-> m]
MatchAttempt(m, a, h, g) ==
  [type |-> "MatchAttempt", id |-> m, attempts |-> a, hints |-> h, guess |-> g]
IncorrectGuess(m, a) == [type |-> "IncorrectGuess", id |-> m, attempts |-> a]
MatchHint(m, h) == [type |-> "MatchHint", id |-> m, hint |-> h]
MatchEnded(m, a, h, s) ==
  [type |-> "MatchEnded", id |-> m, attempts |-> a, hints |-> h, solved |-> s]
Disconnect == [type |-> "Disconnect"]

\* ------------------------------------------------------------------ state

VARIABLES
  stream,             \* per player id, its connection: "none" (not accepted
                      \* yet), "open", "closed" (the inbound stream has ended)
  active_connections, \* the registry: the player ids with a Connection entry
  main_rx,            \* the dispatch channel: the sender ids of the messages
                      \* waiting in it, oldest first
  server_state,       \* ServerState
  recorded,           \* per match id, the calls of Match::attempt on it
  guessed,            \* per match id, the GuessAttempt messages of its guesser
                      \* handled on it
  hinted,             \* per match id, the SendHint messages handled on it
  pc,                 \* where the main task is: in the select! of its loop,
                      \* or inside handle_client for a player
  first_sent,         \* per player id, the kind of the first message put on
                      \* its outbound channel ("none" when there is none yet)
  writer,             \* per player id, the write task of its connection:
                      \* "none" (not spawned yet), "running", "stalled" (the
                      \* peer has stopped reading: write_all does not return),
                      \* "ended" (a write failed: the task has left its loop
                      \* and dropped the outbound channel's receiver)
  outbound,           \* per player id, the messages in its outbound channel
                      \* that the write task has not taken yet, counted
                      \* (where the write tasks are taken step by step;
                      \* elsewhere a message is written as it is sent)
  disconnect_sent,    \* the player ids drop_all_connections has sent
                      \* Disconnect
  socket_path,        \* the Unix socket path: "bound" or "removed"
  wire,               \* per player id, the bytes its peer has written to the
                      \* socket and the read task has not read yet
  client_rx,          \* per player id, the connection's channel from the
                      \* read task to the forwarding task: decoded messages
  main_msg,           \* the dispatch channel: the messages that go with the
                      \* ids of main_rx (where the bytes are in view;
                      \* elsewhere the message is drawn when it is handled)
  written,            \* per player id, what its peer has written, frame by
                      \* frame: a message, or "garbage"
  decoded,            \* per player id, the messages its read task has decoded
  handled,            \* per player id, the messages of it that
                      \* react_to_client_msg has been called on
  authenticated       \* the player ids whose AnswerPassword with the shared
                      \* secret has been handled

vars == <<stream, active_connections, main_rx, server_state, recorded,
          guessed, hinted, pc, first_sent, writer, outbound, disconnect_sent,
          socket_path, wire, client_rx, main_msg, written, decoded, handled,
          authenticated>>

\* What only the inbound path of a connection changes, taken byte by byte.
wire_vars == <<wire, client_rx, main_msg, written, decoded, handled>>

\* What only the shutdown of main changes.
shutdown_vars == <<disconnect_sent, socket_path>>

\* ------------------------------------------------------------ finite maps

EmptyMap == <<>>
MapInsert(map, k, v) ==
  [x \in (DOMAIN map) \cup {k} |-> IF x = k THEN v ELSE map[x]]
MapRemove(map, k) == [x \in (DOMAIN map) \ {k} |-> map[x]]

Perms(S) ==
  {f \in [1..Cardinality(S) -> S] :
     \A i, j \in 1..Cardinality(S) : i # j => f[i] # f[j]}


\* ----------------------------------------------------------- server_state

\* Match::new, with the fresh Uuid passed in as id
NewMatch(id, challenger, guesser, guess_word) ==
  [id |-> id, challenger |-> challenger, guesser |-> guesser, attempts |-> 0,
   hints |-> <<>>, guess_word |-> guess_word, state |-> "Active"]

\* Match::attempt as it would be if the solving guess were not counted.
attempt_uncounted(m, guess) ==
  IF guess = m.guess_word THEN [m EXCEPT !.state = "Solved"]
  ELSE [m EXCEPT !.attempts = @ + 1]

\* Match::attempt
attempt(m, guess) ==
  LET counted == [m EXCEPT !.attempts = @ + 1]
  IN  IF guess = m.guess_word THEN [counted EXCEPT !.state = "Solved"]
      ELSE counted

\* Match::add_hint as it would be if the hint were put in front.
add_hint_front(m, hint) == [m EXCEPT !.hints = <<hint>> \o @]

\* Match::add_hint
add_hint(m, hint) == [m EXCEPT !.hints = Append(@, hint)]

\* Match::give_up
give_up(m) == [m EXCEPT !.state = "GivenUp"]

\* Match::cancel
cancel(m) == [m EXCEPT !.state = "Cancelled"]

\* ServerState::default
DefaultServerState ==
  [available_players |-> {}, active_matches |-> EmptyMap,
   finished_matches |-> EmptyMap]

\* ServerState::add_available_player
add_available_player(s, player_id) ==
  [s EXCEPT !.available_players = @ \cup {player_id}]

\* ServerState::remove_available_player
remove_available_player(s, player_id) ==
  [s EXCEPT !.available_players = @ \ {player_id}]

\* Match ids as they would be if an id could be given again once its match
\* has left the active collection.
FreshMatchId_recycled(s) ==
  LET unused == {i \in DOMAIN MatchOrder :
                   MatchOrder[i] \notin DOMAIN s.active_matches}
  IN  IF unused = {} THEN "spent"
      ELSE MatchOrder[CHOOSE i \in unused : \A j \in unused : i <= j]

\* The id Uuid::new_v4 gives the next match: the first that no match has had.
FreshMatchId(s) ==
  LET unused == {i \in DOMAIN MatchOrder :
                   MatchOrder[i] \notin (DOMAIN s.active_matches)
                                          \cup (DOMAIN s.finished_matches)}
  IN  IF unused = {} THEN "spent"
      ELSE MatchOrder[CHOOSE i \in unused : \A j \in unused : i <= j]

\* ServerState::create_new_match as it would be if only the opponent's
\* availability were checked.
create_new_match_unchecked(s, challenger, guesser, guess_word) ==
  IF guesser \notin s.available_players
  THEN [state |-> s, ret |-> None]
  ELSE LET id == FreshMatchId(s)
           new_match == NewMatch(id, challenger, guesser, guess_word)
       IN  [state |->
              [s EXCEPT !.active_matches = MapInsert(@, id, new_match),
                        !.available_players = (@ \ {challenger}) \ {guesser}],
            ret |-> id]

\* ServerState::create_new_match: the new state and the returned Option<Uuid>
create_new_match(s, challenger, guesser, guess_word) ==
  IF guesser \notin s.available_players \/ challenger \notin s.available_players
  THEN [state |-> s, ret |-> None]
  ELSE LET id == FreshMatchId(s)
           new_match == NewMatch(id, challenger, guesser, guess_word)
       IN  [state |->
              [s EXCEPT !.active_matches = MapInsert(@, id, new_match),
                        !.available_players = (@ \ {challenger}) \ {guesser}],
            ret |-> id]

\* ServerState::finish_match as it would be if the match were copied to the
\* finished collection and left in the active one.
finish_match_copied(s, match_id) ==
  IF match_id \in DOMAIN s.active_matches
  THEN LET active_match == s.active_matches[match_id]
       IN  [s EXCEPT
              !.available_players =
                 (@ \cup {active_match.guesser}) \cup {active_match.challenger},
              !.finished_matches = MapInsert(@, match_id, active_match)]
  ELSE s

\* ServerState::finish_match as it would be if only the guesser were put back
\* in the available set.
finish_match_guesser_only(s, match_id) ==
  IF match_id \in DOMAIN s.active_matches
  THEN LET active_match == s.active_matches[match_id]
       IN  [s EXCEPT
              !.active_matches = MapRemove(@, match_id),
              !.available_players = @ \cup {active_match.guesser},
              !.finished_matches = MapInsert(@, match_id, active_match)]
  ELSE s

\* ServerState::finish_match
finish_match(s, match_id) ==
  IF match_id \in DOMAIN s.active_matches
  THEN LET active_match == s.active_matches[match_id]
       IN  [s EXCEPT
              !.active_matches = MapRemove(@, match_id),
              !.available_players =
                 (@ \cup {active_match.guesser}) \cup {active_match.challenger},
              !.finished_matches = MapInsert(@, match_id, active_match)]
  ELSE s

\* ------------------------------------------------------ server_connection

(***************************************************************************)
(* A handler runs on a context: the ServerState it mutates, the messages   *)
(* it has put on outbound channels, and the send_message call that failed. *)
(* Every send in react_to_client_msg is `send_message(..).await?`, so the  *)
(* first failed send ends the handler: a step on a context that has failed *)
(* changes nothing.                                                        *)
(***************************************************************************)
Context(s) ==
  [state |-> s, sent |-> <<>>, failed |-> <<>>, attempted |-> {},
   matches_to_finish |-> <<>>]

Succeeded(ctx) == ctx.failed = <<>>

\* send_message finds the player's Connection in the registry, and
\* connection.tx.send finds the outbound channel's receiver alive.
Reachable(player_id) ==
  player_id \in active_connections /\ writer[player_id] # "ended"

\* send_message
send_message(ctx, player_id, msg) ==
  IF ~Succeeded(ctx) THEN ctx
  ELSE IF Reachable(player_id)
       THEN [ctx EXCEPT !.sent = Append(@, [to |-> player_id, msg |-> msg])]
       ELSE [ctx EXCEPT !.failed = <<[to |-> player_id, msg |-> msg]>>]

\* A mutation of the ServerState that the handler reaches only if no send
\* before it failed.
Then(ctx, s) == IF Succeeded(ctx) THEN [ctx EXCEPT !.state = s] ELSE ctx

\* The AnswerPassword arm as it would be if every password were accepted.
OnAnswerPassword_any(ctx, player_id, password) ==
  send_message(Then(ctx, add_available_player(ctx.state, player_id)),
               player_id, AssignId(player_id))

\* react_to_client_msg, ClientMessage::AnswerPassword
OnAnswerPassword(ctx, player_id, password) ==
  IF password = "password"
  THEN send_message(Then(ctx, add_available_player(ctx.state, player_id)),
                    player_id, AssignId(player_id))
  ELSE ctx

\* react_to_client_msg, ClientMessage::GetOpponents
OnGetOpponents(ctx, player_id) ==
  LET opponents == {player \in ctx.state.available_players : player # player_id}
  IN  send_message(ctx, player_id, ListOpponents(opponents))

\* The RequestMatch arm as it would be if the opponent were told the word.
OnRequestMatch_telling(ctx, player_id, opponent, guess_word) ==
  LET created == create_new_match(ctx.state, player_id, opponent, guess_word)
  IN  IF created.ret # None
      THEN send_message(
             send_message(
               send_message(Then(ctx, created.state), opponent,
                            MatchStarted(created.ret)),
               opponent, MatchHint(created.ret, guess_word)),
             player_id, MatchAccepted(created.ret))
      ELSE send_message(ctx, player_id, BadRequest("CannotCreateMatch"))

\* react_to_client_msg, ClientMessage::RequestMatch
OnRequestMatch(ctx, player_id, opponent, guess_word) ==
  LET created == create_new_match(ctx.state, player_id, opponent, guess_word)
  IN  IF created.ret # None
      THEN send_message(
             send_message(Then(ctx, created.state), opponent,
                          MatchStarted(created.ret)),
             player_id, MatchAccepted(created.ret))
      ELSE send_message(ctx, player_id, BadRequest("CannotCreateMatch"))

\* react_to_client_msg, ClientMessage::GuessAttempt
OnGuessAttempt(ctx, player_id, match_id, guess) ==
  IF match_id \in DOMAIN ctx.state.active_matches
  THEN LET active_match == attempt(ctx.state.active_matches[match_id], guess)
           tried == [ctx EXCEPT !.state.active_matches[match_id] = active_match,
                                !.attempted = @ \cup {match_id}]
           ended == MatchEnded(match_id, active_match.attempts,
                               Len(active_match.hints), TRUE)
       IN  CASE active_match.state = "Active" ->
                  send_message(
                    send_message(tried, active_match.challenger,
                                 MatchAttempt(match_id, active_match.attempts,
                                              Len(active_match.hints), guess)),
                    active_match.guesser,
                    IncorrectGuess(match_id, active_match.attempts))
             [] active_match.state = "Solved" ->
                  LET told == send_message(
                                send_message(tried, active_match.challenger, ended),
                                active_match.guesser, ended)
                  IN  Then(told, finish_match(told.state, match_id))
             [] OTHER -> Then(tried, finish_match(tried.state, match_id))
  ELSE send_message(ctx, player_id, BadRequest("Match404"))

\* The SendHint arm as it would be if a hint for a match that is not in the
\* active collection were dropped without a reply.
OnSendHint_silent(ctx, player_id, match_id, hint) ==
  IF match_id \in DOMAIN ctx.state.active_matches
  THEN LET active_match == add_hint(ctx.state.active_matches[match_id], hint)
       IN  send_message(
             [ctx EXCEPT !.state.active_matches[match_id] = active_match],
             active_match.guesser, MatchHint(match_id, hint))
  ELSE ctx

\* react_to_client_msg, ClientMessage::SendHint
OnSendHint(ctx, player_id, match_id, hint) ==
  IF match_id \in DOMAIN ctx.state.active_matches
  THEN LET active_match == add_hint(ctx.state.active_matches[match_id], hint)
       IN  send_message([ctx EXCEPT !.state.active_matches[match_id] = active_match],
                        active_match.guesser, MatchHint(match_id, hint))
  ELSE send_message(ctx, player_id, BadRequest("Match404"))

\* The GiveUp arm as it would be without the check that the sender is the
\* guesser.
OnGiveUp_unchecked(ctx, player_id, match_id) ==
  IF match_id \in DOMAIN ctx.state.active_matches
  THEN LET active_match == give_up(ctx.state.active_matches[match_id])
           told == send_message(
                     [ctx EXCEPT !.state.active_matches[match_id] = active_match],
                     active_match.guesser,
                     MatchEnded(match_id, active_match.attempts,
                                Len(active_match.hints), FALSE))
       IN  Then(told, finish_match(told.state, match_id))
  ELSE send_message(ctx, player_id, BadRequest("Match404"))

\* react_to_client_msg, ClientMessage::GiveUp
OnGiveUp(ctx, player_id, match_id) ==
  IF match_id \in DOMAIN ctx.state.active_matches
  THEN IF ctx.state.active_matches[match_id].guesser # player_id
       THEN send_message(ctx, player_id, BadRequest("PermissionDenied"))
       ELSE LET active_match == give_up(ctx.state.active_matches[match_id])
                told == send_message(
                          [ctx EXCEPT !.state.active_matches[match_id] = active_match],
                          active_match.guesser,
                          MatchEnded(match_id, active_match.attempts,
                                     Len(active_match.hints), FALSE))
            IN  Then(told, finish_match(told.state, match_id))
  ELSE send_message(ctx, player_id, BadRequest("Match404"))

\* react_to_client_msg, ClientMessage::LeaveGame: one of its two loops over
\* active_matches.values_mut(), visiting the matches in the sequence `order`
\* from its i-th on; the first loop gives up, the second cancels.
RECURSIVE LeaveMatches(_, _, _, _)
LeaveMatches(ctx, order, i, as_guesser) ==
  IF i > Len(order) \/ ~Succeeded(ctx) THEN ctx
  ELSE LET id == order[i]
           active_match == IF as_guesser
                           THEN give_up(ctx.state.active_matches[id])
                           ELSE cancel(ctx.state.active_matches[id])
           other == IF as_guesser THEN active_match.challenger
                    ELSE active_match.guesser
           told == send_message(
                     [ctx EXCEPT !.state.active_matches[id] = active_match],
                     other,
                     MatchEnded(active_match.id, active_match.attempts,
                                Len(active_match.hints), FALSE))
           pushed == IF Succeeded(told)
                     THEN [told EXCEPT !.matches_to_finish = Append(@, id)]
                     ELSE told
       IN  LeaveMatches(pushed, order, i + 1, as_guesser)

\* matches_to_finish.iter().for_each(finish_match), from the i-th on
RECURSIVE FinishAll(_, _, _)
FinishAll(s, ids, i) ==
  IF i > Len(ids) THEN s ELSE FinishAll(finish_match(s, ids[i]), ids, i + 1)

\* react_to_client_msg, ClientMessage::LeaveGame, the maps being iterated in
\* the orders given
OnLeaveGame(ctx, player_id, guesser_order, challenger_order) ==
  LET given_up == LeaveMatches(ctx, guesser_order, 1, TRUE)
      cancelled == LeaveMatches(given_up, challenger_order, 1, FALSE)
      finished == Then(cancelled,
                       FinishAll(cancelled.state, cancelled.matches_to_finish, 1))
      removed == Then(finished,
                      remove_available_player(finished.state, player_id))
  IN  send_message(removed, player_id, Disconnect)

\* The matches of the active collection a player takes part in.
GuesserMatches(s, player_id) ==
  {id \in DOMAIN s.active_matches : s.active_matches[id].guesser = player_id}
ChallengerMatches(s, player_id) ==
  {id \in DOMAIN s.active_matches : s.active_matches[id].challenger = player_id}

\* react_to_client_msg: the contexts in which handling msg from player_id can
\* end (more than one only where the iteration order of a HashMap decides).
react_to_client_msg(player_id, msg, s) ==
  LET ctx == Context(s)
  IN  CASE msg.type = "AnswerPassword" ->
             {OnAnswerPassword(ctx, player_id, msg.password)}
        [] msg.type = "GetOpponents" -> {OnGetOpponents(ctx, player_id)}
        [] msg.type = "RequestMatch" ->
             {OnRequestMatch(ctx, player_id, msg.opponent, msg.word)}
        [] msg.type = "GuessAttempt" ->
             {OnGuessAttempt(ctx, player_id, msg.id, msg.guess)}
        [] msg.type = "SendHint" -> {OnSendHint(ctx, player_id, msg.id, msg.hint)}
        [] msg.type = "GiveUp" -> {OnGiveUp(ctx, player_id, msg.id)}
        [] msg.type = "LeaveGame" ->
             {OnLeaveGame(ctx, player_id, go, co) :
                go \in Perms(GuesserMatches(s, player_id)),
                co \in Perms(ChallengerMatches(s, player_id))}

\* ---------------------------------------------------------------- actions

\* The message keeps the model within its bounds: ids are the match ids that
\* are left to mint.
WithinBounds(player_id, msg, s, ids) ==
  CASE msg.type = "RequestMatch" ->
         create_new_match(s, player_id, msg.opponent, msg.word).ret
           \in ids \cup {None}
    [] msg.type = "GuessAttempt" ->
         msg.id \in DOMAIN s.active_matches
           => s.active_matches[msg.id].attempts < MaxAttempts
    [] msg.type = "SendHint" ->
         msg.id \in DOMAIN s.active_matches
           => Len(s.active_matches[msg.id].hints) < MaxHints
    [] OTHER -> TRUE

\* The main task is at the select! of its loop.
AtSelect == [at |-> "select", player |-> None]

\* The main task is inside handle_client for player p, before the statement
\* named.
InHandleClient(at, p) == [at |-> at, player |-> p]

\* The main task as it would be if the branches of the select! ran as tasks
\* of their own, a dispatch running while handle_client is under way.
MainPolls_anywhere == TRUE

\* The main task can take a branch of the select!(main polls its branches
\* only there: handle_client and react_to_client_msg are awaited inline).
MainPolls == pc = AtSelect

\* drop_all_connections holds the registry's write lock for the whole of its
\* loop: the forwarding tasks wait for it.
RegistryLocked == pc.at = "shutdown"

\* client_sender.send(msg): the outbound channel's first message is kept.
Put(first, msg) == IF first = "none" THEN msg.type ELSE first

Init ==
  /\ stream = [p \in Players |-> "none"]
  /\ active_connections = {}
  /\ main_rx = <<>>
  /\ server_state = DefaultServerState
  /\ recorded = [m \in MatchIds |-> 0]
  /\ guessed = [m \in MatchIds |-> 0]
  /\ hinted = [m \in MatchIds |-> 0]
  /\ pc = AtSelect
  /\ first_sent = [p \in Players |-> "none"]
  /\ writer = [p \in Players |-> "none"]
  /\ outbound = [p \in Players |-> 0]
  /\ disconnect_sent = {}
  /\ socket_path = "bound"
  /\ wire = [p \in Players |-> <<>>]
  /\ client_rx = [p \in Players |-> <<>>]
  /\ main_msg = <<>>
  /\ written = [p \in Players |-> <<>>]
  /\ decoded = [p \in Players |-> <<>>]
  /\ handled = [p \in Players |-> <<>>]
  /\ authenticated = {}

\* main, an accept branch of the select loop: handle_client mints the player
\* id, spawns the connection's tasks, enters it in the registry and sends
\* AskPassword on its outbound channel.
Accept(p) ==
  /\ stream[p] = "none"
  /\ \A i, j \in DOMAIN PlayerOrder :
       (i < j /\ PlayerOrder[j] = p) => stream[PlayerOrder[i]] # "none"
  /\ MainPolls
  /\ stream' = [stream EXCEPT ![p] = "open"]
  /\ active_connections' = active_connections \cup {p}
  /\ first_sent' = [first_sent EXCEPT ![p] = Put(@, AskPassword)]
  /\ writer' = [writer EXCEPT ![p] = "running"]
  /\ UNCHANGED <<authenticated, main_rx, server_state, recorded, guessed, hinted, pc,
                  outbound, shutdown_vars,
                  wire_vars>>

\* handle_stream's read task decodes a message of the client and the
\* forwarding task of handle_client passes it, tagged with the player id, to
\* the dispatch channel. What the message says is the client's choice; it is
\* drawn when the message is received.
ClientSend(p) ==
  /\ stream[p] = "open"
  /\ Len(main_rx) < MaxQueue
  /\ main_rx' = Append(main_rx, p)
  /\ UNCHANGED <<authenticated, stream, active_connections, server_state, recorded, guessed,
                  hinted, pc, first_sent, writer, outbound, shutdown_vars,
                  wire_vars>>

\* The inbound stream ends (Ok(0) or a read error): the read task breaks, the
\* forwarding task's loop ends and it removes the registry entry. Messages the
\* task has passed on stay in the dispatch channel.
Close(p) ==
  /\ stream[p] = "open"
  /\ ~RegistryLocked
  /\ stream' = [stream EXCEPT ![p] = "closed"]
  /\ active_connections' = active_connections \ {p}
  /\ UNCHANGED <<authenticated, main_rx, server_state, recorded, guessed, hinted, pc,
                  first_sent, writer, outbound, shutdown_vars,
                  wire_vars>>

\* The AnswerPassword arm has compared the password with the shared secret.
Authenticate(player_id, msg) ==
  IF msg.type = "AnswerPassword" /\ msg.password = "password"
  THEN authenticated \cup {player_id}
  ELSE authenticated

\* Match::attempt has been called on the matches of ctx.attempted.
Count(ctx) ==
  [m \in MatchIds |-> IF m \in ctx.attempted THEN recorded[m] + 1
                      ELSE recorded[m]]

\* The record of a match, in whichever collection holds it.
RecordOf(s, id) ==
  IF id \in DOMAIN s.active_matches THEN s.active_matches[id]
  ELSE s.finished_matches[id]

\* Match::attempt has been called for a GuessAttempt of the match's guesser.
CountGuesser(player_id, ctx) ==
  [m \in MatchIds |->
     IF m \in ctx.attempted /\ RecordOf(ctx.state, m).guesser = player_id
     THEN guessed[m] + 1 ELSE guessed[m]]

\* Match::add_hint has been called for a SendHint that names a match of the
\* active collection.
CountHints(msg) ==
  [m \in MatchIds |->
     IF /\ msg.type = "SendHint"
        /\ msg.id = m
        /\ m \in DOMAIN server_state.active_matches
     THEN hinted[m] + 1 ELSE hinted[m]]

\* The messages a handler has sent, from the i-th on, put on the outbound
\* channels in the order of the sends.
RECURSIVE PutAll(_, _, _)
PutAll(first, sent, i) ==
  IF i > Len(sent) THEN first
  ELSE PutAll([first EXCEPT ![sent[i].to] = Put(@, sent[i].msg)], sent, i + 1)

\* main, the rx.recv() branch of the select loop: react_to_client_msg on the
\* oldest message of the dispatch channel, run to its end; its Result is
\* dropped (`let _ =`).
Dispatch(ids) ==
  /\ MainPolls
  /\ main_rx # <<>>
  /\ \E msg \in ClientMessage :
       /\ WithinBounds(Head(main_rx), msg, server_state, ids)
       /\ \E ctx \in react_to_client_msg(Head(main_rx), msg, server_state) :
            /\ server_state' = ctx.state
            /\ recorded' = Count(ctx)
            /\ guessed' = CountGuesser(Head(main_rx), ctx)
            /\ hinted' = CountHints(msg)
            /\ first_sent' = PutAll(first_sent, ctx.sent, 1)
       /\ authenticated' = Authenticate(Head(main_rx), msg)
  /\ main_rx' = Tail(main_rx)
  /\ UNCHANGED <<stream, active_connections, pc, writer, outbound,
                  shutdown_vars,
                  wire_vars>>

\* Three connections and one match.
FirstMatch == {MatchOrder[1]}

Next ==
  \/ \E p \in Players : Accept(p)
  \/ \E p \in Players : ClientSend(p)
  \/ \E p \in Players : Close(p)
  \/ Dispatch(FirstMatch)

Spec == Init /\ [][Next]_vars

\* Two connections that stay open, and can be matched again and again.
Pair == {PlayerOrder[1], PlayerOrder[2]}

NextRematch ==
  \/ \E p \in Pair : Accept(p)
  \/ \E p \in Pair : ClientSend(p)
  \/ Dispatch(MatchIds)

SpecRematch == Init /\ [][NextRematch]_vars

\* handle_client statement by statement, the other tasks running between its
\* awaits. handle_stream spawns the connection's read and write tasks and
\* handle_client spawns the forwarding task: from here on the client's
\* messages reach the dispatch channel, and the end of the inbound stream
\* removes the registry entry.
AcceptSpawn(p) ==
  /\ MainPolls
  /\ stream[p] = "none"
  /\ \A i, j \in DOMAIN PlayerOrder :
       (i < j /\ PlayerOrder[j] = p) => stream[PlayerOrder[i]] # "none"
  /\ stream' = [stream EXCEPT ![p] = "open"]
  /\ pc' = InHandleClient("insert", p)
  /\ writer' = [writer EXCEPT ![p] = "running"]
  /\ UNCHANGED <<authenticated, active_connections, main_rx, server_state, recorded, guessed,
                  hinted, first_sent, outbound, shutdown_vars,
                  wire_vars>>

\* handle_client: conns.insert(player_id, Connection { tx })
AcceptInsert(p) ==
  /\ pc = InHandleClient("insert", p)
  /\ active_connections' = active_connections \cup {p}
  /\ pc' = InHandleClient("ask", p)
  /\ UNCHANGED <<authenticated, stream, main_rx, server_state, recorded, guessed, hinted,
                  first_sent, writer, outbound, shutdown_vars,
                  wire_vars>>

\* handle_client: client_sender.send(ServerMessage::AskPassword), and the
\* return to the select loop
AcceptAsk(p) ==
  /\ pc = InHandleClient("ask", p)
  /\ first_sent' = [first_sent EXCEPT ![p] = Put(@, AskPassword)]
  /\ pc' = AtSelect
  /\ UNCHANGED <<authenticated, stream, active_connections, main_rx, server_state, recorded,
                  guessed, hinted, writer, outbound, shutdown_vars,
                  wire_vars>>

\* Two connections and one match, the accept handler taken step by step.
NextAccept ==
  \/ \E p \in Pair : AcceptSpawn(p)
  \/ \E p \in Pair : AcceptInsert(p)
  \/ \E p \in Pair : AcceptAsk(p)
  \/ \E p \in Pair : ClientSend(p)
  \/ \E p \in Pair : Close(p)
  \/ Dispatch(FirstMatch)

SpecAccept == Init /\ [][NextAccept]_vars

\* ------------------------------------------- outbound channels, shutdown

\* The main task is inside react_to_client_msg for the message msg of player
\* p, `done` of its send_message calls having returned.
InHandler(p, msg, done) ==
  [at |-> "handler", player |-> p, msg |-> msg, done |-> done]

\* The main task is inside drop_all_connections, the connections of `left`
\* still to come in its loop.
InShutdown(left) == [at |-> "shutdown", player |-> None, left |-> left]

\* The main task is past drop_all_connections, before remove_file; and past
\* remove_file.
AtCleanup == [at |-> "cleanup", player |-> None]
AtExit == [at |-> "exit", player |-> None]

\* The messages handled with the outbound channels in view.
OutboundRequests ==
       {AnswerPassword("password"), GetOpponents}
  \cup {RequestMatch(o, w) : o \in Pair, w \in Secrets}

\* tx.send as it would be on a channel without bound.
HasRoom_always(p) == TRUE

\* tx.send(msg).await returns when the channel has room for msg, and
\* suspends the sender while it has none.
HasRoom(p) == outbound[p] < OutboundCapacity

\* main, an accept branch of the select!: handle_client as in Accept, its
\* AskPassword waiting in the new outbound channel for the write task.
AcceptQueued(p) ==
  /\ stream[p] = "none"
  /\ \A i, j \in DOMAIN PlayerOrder :
       (i < j /\ PlayerOrder[j] = p) => stream[PlayerOrder[i]] # "none"
  /\ MainPolls
  /\ stream' = [stream EXCEPT ![p] = "open"]
  /\ active_connections' = active_connections \cup {p}
  /\ first_sent' = [first_sent EXCEPT ![p] = Put(@, AskPassword)]
  /\ writer' = [writer EXCEPT ![p] = "running"]
  /\ outbound' = [outbound EXCEPT ![p] = 1]
  /\ UNCHANGED <<authenticated, main_rx, server_state, recorded, guessed, hinted, pc,
                  shutdown_vars,
                  wire_vars>>

\* main, the rx.recv() branch: the oldest message of the dispatch channel is
\* received and react_to_client_msg is entered.
DispatchBegin ==
  /\ MainPolls
  /\ main_rx # <<>>
  /\ \E msg \in OutboundRequests :
       /\ WithinBounds(Head(main_rx), msg, server_state, FirstMatch)
       /\ pc' = InHandler(Head(main_rx), msg, 0)
  /\ main_rx' = Tail(main_rx)
  /\ UNCHANGED <<authenticated, stream, active_connections, server_state, recorded, guessed,
                  hinted, first_sent, writer, outbound, shutdown_vars,
                  wire_vars>>

\* react_to_client_msg: the next send_message(..).await of the handler under
\* way puts its message on the target's outbound channel. The handler is
\* worked out on the ServerState it started from and the registry as it is
\* now; the ServerState is written when the handler returns.
HandlerSend ==
  /\ pc.at = "handler"
  /\ \E ctx \in react_to_client_msg(pc.player, pc.msg, server_state) :
       /\ pc.done < Len(ctx.sent)
       /\ LET next == ctx.sent[pc.done + 1]
          IN  /\ HasRoom(next.to)
              /\ outbound' = [outbound EXCEPT ![next.to] = @ + 1]
              /\ first_sent' = [first_sent EXCEPT ![next.to] = Put(@, next.msg)]
  /\ pc' = [pc EXCEPT !.done = @ + 1]
  /\ UNCHANGED <<authenticated, stream, active_connections, main_rx, server_state, recorded,
                  guessed, hinted, writer, shutdown_vars,
                  wire_vars>>

\* react_to_client_msg returns: all its sends are done, or one has failed
\* and `?` has ended the handler.
HandlerReturn ==
  /\ pc.at = "handler"
  /\ \E ctx \in react_to_client_msg(pc.player, pc.msg, server_state) :
       /\ pc.done >= Len(ctx.sent)
       /\ server_state' = ctx.state
       /\ recorded' = Count(ctx)
       /\ guessed' = CountGuesser(pc.player, ctx)
       /\ hinted' = CountHints(pc.msg)
  /\ authenticated' = Authenticate(pc.player, pc.msg)
  /\ pc' = AtSelect
  /\ UNCHANGED <<stream, active_connections, main_rx, first_sent, writer,
                  outbound, shutdown_vars,
                  wire_vars>>

\* handle_stream's write task takes a message from the outbound channel and
\* writes it to the socket.
Write(p) ==
  /\ writer[p] = "running"
  /\ outbound[p] > 0
  /\ outbound' = [outbound EXCEPT ![p] = @ - 1]
  /\ UNCHANGED <<authenticated, stream, active_connections, main_rx, server_state, recorded,
                  guessed, hinted, pc, first_sent, writer, shutdown_vars,
                  wire_vars>>

\* The peer stops reading: the write task's write_all does not return, and
\* the task takes no further message.
PeerStops(p) ==
  /\ writer[p] = "running"
  /\ writer' = [writer EXCEPT ![p] = "stalled"]
  /\ UNCHANGED <<authenticated, stream, active_connections, main_rx, server_state, recorded,
                  guessed, hinted, pc, first_sent, outbound, shutdown_vars,
                  wire_vars>>

\* write_all fails on a message the write task has taken: the task breaks
\* out of its loop and ends, the receiver of the outbound channel is dropped
\* with the messages left in it.
WriteError(p) ==
  /\ writer[p] \in {"running", "stalled"}
  /\ outbound[p] > 0
  /\ writer' = [writer EXCEPT ![p] = "ended"]
  /\ outbound' = [outbound EXCEPT ![p] = 0]
  /\ UNCHANGED <<authenticated, stream, active_connections, main_rx, server_state, recorded,
                  guessed, hinted, pc, first_sent, shutdown_vars,
                  wire_vars>>

\* main, the ctrl_c and terminate branches of the select!: break, and
\* drop_all_connections is entered.
Signal ==
  /\ MainPolls
  /\ pc' = InShutdown(active_connections)
  /\ UNCHANGED <<authenticated, stream, active_connections, main_rx, server_state, recorded,
                  guessed, hinted, first_sent, writer, outbound, shutdown_vars,
                  wire_vars>>

\* drop_all_connections: connection.tx.send(Disconnect).await? on the next
\* connection of the loop, whichever the HashMap gives; a send that fails
\* returns from the function.
ShutdownSend(p) ==
  /\ pc.at = "shutdown"
  /\ p \in pc.left
  /\ IF writer[p] = "ended"
     THEN /\ pc' = AtCleanup
          /\ UNCHANGED <<outbound, first_sent, disconnect_sent>>
     ELSE /\ HasRoom(p)
          /\ outbound' = [outbound EXCEPT ![p] = @ + 1]
          /\ first_sent' = [first_sent EXCEPT ![p] = Put(@, Disconnect)]
          /\ disconnect_sent' = disconnect_sent \cup {p}
          /\ pc' = InShutdown(pc.left \ {p})
  /\ UNCHANGED <<authenticated, stream, active_connections, main_rx, server_state, recorded,
                  guessed, hinted, writer, socket_path, wire_vars>>

\* main: drop_all_connections has returned (its Result is dropped), and
\* remove_file(UNIX_ADDR) is called.
RemoveFile ==
  /\ pc = AtCleanup \/ pc = InShutdown({})
  /\ socket_path' = "removed"
  /\ pc' = AtExit
  /\ UNCHANGED <<authenticated, stream, active_connections, main_rx, server_state, recorded,
                  guessed, hinted, first_sent, writer, outbound,
                  disconnect_sent, wire_vars>>

\* Two connections and one match, the handlers taken send by send, the write
\* tasks and the shutdown of main.
NextOutbound ==
  \/ \E p \in Pair : AcceptQueued(p)
  \/ \E p \in Pair : ClientSend(p)
  \/ \E p \in Pair : Close(p)
  \/ DispatchBegin
  \/ HandlerSend
  \/ HandlerReturn
  \/ \E p \in Pair : Write(p)
  \/ \E p \in Pair : PeerStops(p)
  \/ \E p \in Pair : WriteError(p)
  \/ Signal
  \/ \E p \in Pair : ShutdownSend(p)
  \/ RemoveFile

SpecOutbound == Init /\ [][NextOutbound]_vars

\* The main task goes on whenever it can, and so does a write task that has
\* a message to write and a peer that reads; nothing makes a client connect,
\* send, stop reading or close, or a write fail, or a signal arrive.
FairOutbound ==
  /\ WF_vars(DispatchBegin \/ HandlerSend \/ HandlerReturn)
  /\ WF_vars(\E p \in Pair : ShutdownSend(p))
  /\ WF_vars(RemoveFile)
  /\ \A p \in Pair : WF_vars(Write(p))

SpecOutboundFair == Init /\ [][NextOutbound]_vars /\ FairOutbound

\* ----------------------------------------------------------------- claims

\* What the dispatch loop can do with the oldest message of the dispatch
\* channel: the sender, the message and the context its handler ends in.
Handled ==
  IF main_rx = <<>> THEN {}
  ELSE UNION {{[player |-> Head(main_rx), msg |-> msg, ctx |-> ctx] :
                 ctx \in react_to_client_msg(Head(main_rx), msg, server_state)} :
              msg \in {m \in ClientMessage :
                         WithinBounds(Head(main_rx), m, server_state, MatchIds)}}

\* The messages a handler has put on a player's outbound channel.
SentTo(ctx, player_id) ==
  {ctx.sent[i].msg : i \in {j \in DOMAIN ctx.sent : ctx.sent[j].to = player_id}}

Terminal == {"Solved", "GivenUp", "Cancelled"}

\* The matches of the active collection that have state Active and the player
\* as challenger or guesser, the other participant being another player.
ActiveMatchesOf(s, player_id) ==
  {id \in DOMAIN s.active_matches :
     /\ s.active_matches[id].state = "Active"
     /\ s.active_matches[id].challenger # s.active_matches[id].guesser
     /\ player_id \in {s.active_matches[id].challenger,
                       s.active_matches[id].guesser}}

\* C1: no player id is the challenger or guesser of two different matches
\* that are both in the active collection with state Active (stated of the
\* matches between two players).
C1_OneActiveMatchPerPlayer ==
  \A p \in Players : Cardinality(ActiveMatchesOf(server_state, p)) <= 1

\* C2 (its "in particular"): no player id is at the same time in the
\* available set and a participant of an active match (stated of the matches
\* between two players).
C2_AvailableOrMatched ==
  \A p \in server_state.available_players :
     ActiveMatchesOf(server_state, p) = {}

\* C3 (its example): a solving GuessAttempt on an active match whose guesser
\* is connected delivers MatchEnded(solved=true) to the guesser and moves the
\* match to the finished collection, also when the challenger has disconnected.
C3_SolvingGuessCompletes ==
  \A h \in Handled :
     (/\ h.msg.type = "GuessAttempt"
      /\ h.msg.id \in DOMAIN server_state.active_matches
      /\ server_state.active_matches[h.msg.id].state = "Active"
      /\ server_state.active_matches[h.msg.id].guess_word = h.msg.guess
      /\ Reachable(server_state.active_matches[h.msg.id].guesser))
     => /\ h.msg.id \in DOMAIN h.ctx.state.finished_matches
        /\ \E a \in 0..MaxAttempts, n \in 0..MaxHints :
             MatchEnded(h.msg.id, a, n, TRUE)
               \in SentTo(h.ctx, server_state.active_matches[h.msg.id].guesser)

\* C4: when the challenger of an Active match (whose guesser is another,
\* connected player) closes its socket with nothing left in the dispatch
\* channel, the match becomes Cancelled and moves to the finished collection.
C4_ClosedChallengerCancels ==
  [][\A id \in DOMAIN server_state.active_matches :
       LET m == server_state.active_matches[id]
       IN  (/\ m.state = "Active"
            /\ m.guesser # m.challenger
            /\ stream[m.guesser] = "open"
            /\ stream[m.challenger] = "open"
            /\ stream'[m.challenger] = "closed"
            /\ main_rx = <<>>)
           => /\ id \in DOMAIN server_state'.finished_matches
              /\ server_state'.finished_matches[id].state = "Cancelled"]_vars

\* C5: when a connection terminates and leaves the registry with nothing left
\* in the dispatch channel, its player id leaves the available set.
C5_ClosedPlayerNotAvailable ==
  [][\A p \in Players :
       (/\ stream[p] = "open"
        /\ stream'[p] = "closed"
        /\ p \notin active_connections'
        /\ main_rx = <<>>)
       => p \notin server_state'.available_players]_vars

\* The participants of a match.
Participants(m) == {m.challenger, m.guesser}

\* The matches of the active collection a player takes part in.
MatchesOf(s, player_id) ==
  GuesserMatches(s, player_id) \cup ChallengerMatches(s, player_id)

\* C6: handling LeaveGame from p, the other participants being connected:
\* every match of the active collection whose guesser is p becomes GivenUp,
\* every one whose challenger is p becomes Cancelled, the other participant is
\* sent MatchEnded(id, attempts, hintCount, false), each such match moves to
\* the finished collection, the other matches are unchanged, and p is left
\* neither available nor a participant of a match of the active collection.
C6_LeaveGameEndsMatches ==
  \A h \in Handled :
     LET p == h.player
         pre == server_state
         post == h.ctx.state
         mine == MatchesOf(pre, p)
     IN  (/\ h.msg.type = "LeaveGame"
          /\ \A id \in mine :
               Participants(pre.active_matches[id]) \ {p} \subseteq active_connections)
         => /\ \A id \in mine :
                 LET m == pre.active_matches[id]
                 IN  /\ id \notin DOMAIN post.active_matches
                     /\ id \in DOMAIN post.finished_matches
                     /\ m.guesser = p
                          => post.finished_matches[id].state = "GivenUp"
                     /\ m.challenger = p
                          => post.finished_matches[id].state = "Cancelled"
                     /\ \A q \in Participants(m) \ {p} :
                          MatchEnded(id, m.attempts, Len(m.hints), FALSE)
                            \in SentTo(h.ctx, q)
            /\ \A id \in (DOMAIN pre.active_matches) \ mine :
                 /\ id \in DOMAIN post.active_matches
                 /\ post.active_matches[id] = pre.active_matches[id]
            /\ p \notin post.available_players
            /\ MatchesOf(post, p) = {}

\* C7: every RequestMatch from a connected sender gets exactly one reply:
\* MatchAccepted(m) when a match m was created (and then the opponent is sent
\* MatchStarted(m)), BadRequest(CannotCreateMatch) when none was.
C7_RequestMatchAnswered ==
  \A h \in Handled :
     LET p == h.player
         created == (DOMAIN h.ctx.state.active_matches)
                      \ (DOMAIN server_state.active_matches)
         replies == {i \in DOMAIN h.ctx.sent :
                       /\ h.ctx.sent[i].to = p
                       /\ h.ctx.sent[i].msg.type \in {"MatchAccepted", "BadRequest"}}
     IN  (h.msg.type = "RequestMatch" /\ Reachable(p))
         => /\ Cardinality(replies) = 1
            /\ \A id \in created :
                 /\ MatchAccepted(id) \in SentTo(h.ctx, p)
                 /\ MatchStarted(id) \in SentTo(h.ctx, h.msg.opponent)
            /\ created = {}
                 => BadRequest("CannotCreateMatch") \in SentTo(h.ctx, p)

\* C8: create_new_match(challenger, guesser, word) returns a match id if and
\* only if both ids are in the available set; when it returns none the three
\* collections are unchanged; when it returns an id, both players have left
\* the available set and the active collection has gained exactly one match,
\* with that id, challenger, guesser and word, no attempts, no hints and state
\* Active.
C8_CreateNewMatch ==
  \A challenger \in Players, guesser \in Players, word \in Secrets :
     LET s == server_state
         r == create_new_match(s, challenger, guesser, word)
     IN  /\ r.ret # None <=> {challenger, guesser} \subseteq s.available_players
         /\ r.ret = None => r.state = s
         /\ r.ret # None =>
              /\ r.state.available_players
                   = s.available_players \ {challenger, guesser}
              /\ r.ret \notin (DOMAIN s.active_matches)
                                \cup (DOMAIN s.finished_matches)
              /\ DOMAIN r.state.active_matches
                   = (DOMAIN s.active_matches) \cup {r.ret}
              /\ \A id \in DOMAIN s.active_matches :
                   r.state.active_matches[id] = s.active_matches[id]
              /\ r.state.active_matches[r.ret]
                   = [id |-> r.ret, challenger |-> challenger,
                      guesser |-> guesser, attempts |-> 0, hints |-> <<>>,
                      guess_word |-> word, state |-> "Active"]
              /\ r.state.finished_matches = s.finished_matches

\* A match has been created (its players have left the available set) while
\* one player is available and another is not: create_new_match has returned
\* an id, and returns none for these two.
C8_Witness ==
  /\ \E id \in DOMAIN server_state.active_matches :
       LET m == server_state.active_matches[id]
       IN  /\ m.attempts = 0 /\ m.state = "Active" /\ m.challenger # m.guesser
           /\ Participants(m) \cap server_state.available_players = {}
  /\ \E a \in server_state.available_players :
       \E b \in Players \ server_state.available_players :
          create_new_match(server_state, a, b, "apple").ret = None

\* C9: a guess recorded on a match adds exactly one to its attempt count; on a
\* match of state Active it yields Solved if and only if it equals the secret
\* word, and a guess that equals the secret yields Solved in any case; the
\* attempt count of every match, and the one a MatchEnded reports, is the
\* number of guesses recorded on the match.
C9_AttemptsCountGuesses ==
  /\ \A id \in (DOMAIN server_state.active_matches)
                 \cup (DOMAIN server_state.finished_matches) :
       RecordOf(server_state, id).attempts = recorded[id]
  /\ \A h \in Handled :
       /\ (h.msg.type = "GuessAttempt"
           /\ h.msg.id \in DOMAIN server_state.active_matches)
          => LET before == server_state.active_matches[h.msg.id]
                 after == RecordOf(h.ctx.state, h.msg.id)
             IN  /\ after.attempts = before.attempts + 1
                 /\ Count(h.ctx)[h.msg.id] = recorded[h.msg.id] + 1
                 /\ h.msg.guess = before.guess_word => after.state = "Solved"
                 /\ before.state = "Active"
                      => (after.state = "Solved"
                            <=> h.msg.guess = before.guess_word)
       /\ \A i \in DOMAIN h.ctx.sent :
            h.ctx.sent[i].msg.type = "MatchEnded"
              => h.ctx.sent[i].msg.attempts = Count(h.ctx)[h.ctx.sent[i].msg.id]

\* A match has ended Solved by the second guess recorded on it.
C9_Witness ==
  \E id \in DOMAIN server_state.finished_matches :
     LET m == server_state.finished_matches[id]
     IN  m.state = "Solved" /\ m.attempts = 2 /\ recorded[id] = 2

\* The state of a match, in whichever collection holds it.
StateOf(s, id) ==
  IF id \in (DOMAIN s.active_matches) \cup (DOMAIN s.finished_matches)
  THEN RecordOf(s, id).state
  ELSE "absent"

\* The matches a state holds whose challenger and guesser are two players.
MatchesBetweenTwo(s) ==
  {id \in (DOMAIN s.active_matches) \cup (DOMAIN s.finished_matches) :
     RecordOf(s, id).challenger # RecordOf(s, id).guesser}

\* C10: once a match is Solved, GivenUp or Cancelled, no step changes its
\* state (stated of the matches between two players).
C10_TerminalStatesStay ==
  [][\A id \in MatchesBetweenTwo(server_state) :
       StateOf(server_state, id) \in Terminal
         => StateOf(server_state', id) = StateOf(server_state, id)]_vars

\* C11: the active and the finished collection never hold the same match id;
\* finish_match on an id that is not in the active collection, a second call
\* for the same id included, changes nothing; and a match id that is in the
\* finished collection stays there and never returns to the active one.
C11_FinishedOnce ==
  /\ [](/\ (DOMAIN server_state.active_matches)
             \cap (DOMAIN server_state.finished_matches) = {}
        /\ \A id \in MatchIds \ (DOMAIN server_state.active_matches) :
             finish_match(server_state, id) = server_state
        /\ \A id \in DOMAIN server_state.active_matches :
             LET once == finish_match(server_state, id)
             IN  /\ id \in DOMAIN once.finished_matches
                 /\ id \notin DOMAIN once.active_matches
                 /\ finish_match(once, id) = once)
  /\ [][\A id \in DOMAIN server_state.finished_matches :
          /\ id \in DOMAIN server_state'.finished_matches
          /\ id \notin DOMAIN server_state'.active_matches]_vars

\* A match has been moved to the finished collection, and a later message
\* waits to be handled.
C11_Witness ==
  /\ DOMAIN server_state.finished_matches # {}
  /\ main_rx # <<>>

\* C12: finish_match on a match of the active collection leaves its
\* challenger and its guesser in the available set, and so does a dispatch
\* step that finishes a match by a solving guess or by GiveUp.
C12_FinishedPlayersAvailable ==
  /\ \A id \in DOMAIN server_state.active_matches :
       Participants(server_state.active_matches[id])
         \subseteq finish_match(server_state, id).available_players
  /\ \A h \in Handled :
       \A id \in DOMAIN server_state.active_matches :
          (/\ h.msg.type \in {"GuessAttempt", "GiveUp"}
           /\ id \in DOMAIN h.ctx.state.finished_matches)
          => Participants(server_state.active_matches[id])
               \subseteq h.ctx.state.available_players

\* A match between two players has been finished by a dispatch step, and
\* both are in the available set.
C12_Witness ==
  \E id \in DOMAIN server_state.finished_matches :
     LET m == server_state.finished_matches[id]
     IN  /\ m.challenger # m.guesser
         /\ m.state \in {"Solved", "GivenUp"}
         /\ Participants(m) \subseteq server_state.available_players

\* C13: a GuessAttempt, SendHint or GiveUp from a connected sender that names
\* a match id which is not in the active collection (never created, or
\* finished) leaves the ServerState as it is and sends one message, to the
\* sender: BadRequest(Match404), the code's name of MatchNotFound.
C13_UnknownMatchRefused ==
  \A h \in Handled :
     (/\ h.msg.type \in {"GuessAttempt", "SendHint", "GiveUp"}
      /\ h.msg.id \notin DOMAIN server_state.active_matches
      /\ Reachable(h.player))
     => /\ h.ctx.state = server_state
        /\ h.ctx.sent = <<[to |-> h.player, msg |-> BadRequest("Match404")]>>

\* A message of a connected player waits to be handled while one match id
\* is in the finished collection and another was never created.
C13_Witness ==
  /\ main_rx # <<>>
  /\ Reachable(Head(main_rx))
  /\ DOMAIN server_state.finished_matches # {}
  /\ MatchIds \ ((DOMAIN server_state.active_matches)
                   \cup (DOMAIN server_state.finished_matches)) # {}
  /\ DOMAIN server_state.active_matches = {}

\* C14: GiveUp(m) for a match m of the active collection, from a connected
\* player who is not m's guesser, is answered with
\* BadRequest(PermissionDenied) to the sender and nothing else, and m stays
\* in the active collection with its record unchanged.
C14_GiveUpByOtherRefused ==
  \A h \in Handled :
     (/\ h.msg.type = "GiveUp"
      /\ h.msg.id \in DOMAIN server_state.active_matches
      /\ server_state.active_matches[h.msg.id].guesser # h.player
      /\ Reachable(h.player))
     => /\ h.ctx.sent
             = <<[to |-> h.player, msg |-> BadRequest("PermissionDenied")]>>
        /\ h.msg.id \in DOMAIN h.ctx.state.active_matches
        /\ h.ctx.state.active_matches[h.msg.id]
             = server_state.active_matches[h.msg.id]
        /\ h.ctx.state = server_state

\* A message of the connected challenger of an Active match between two
\* players waits to be handled.
C14_Witness ==
  /\ main_rx # <<>>
  /\ Reachable(Head(main_rx))
  /\ \E id \in DOMAIN server_state.active_matches :
       LET m == server_state.active_matches[id]
       IN  /\ m.state = "Active"
           /\ m.challenger = Head(main_rx)
           /\ m.guesser # Head(main_rx)

\* C15: a GuessAttempt(m, g) for a match m of the active collection from a
\* connected player who is not m's guesser, and a SendHint(m, h) from a
\* connected player who is not m's challenger, is answered with
\* BadRequest(PermissionDenied) and leaves m's record unchanged (stated of
\* the matches between two players).
C15_OnlyParticipantsAct ==
  \A h \in Handled :
     LET known == h.msg.type \in {"GuessAttempt", "SendHint"}
                    /\ h.msg.id \in DOMAIN server_state.active_matches
         m == server_state.active_matches[h.msg.id]
     IN  (/\ known
          /\ m.challenger # m.guesser
          /\ Reachable(h.player)
          /\ \/ h.msg.type = "GuessAttempt" /\ m.guesser # h.player
             \/ h.msg.type = "SendHint" /\ m.challenger # h.player)
         => /\ BadRequest("PermissionDenied") \in SentTo(h.ctx, h.player)
            /\ RecordOf(h.ctx.state, h.msg.id) = m

\* C16: AnswerPassword with the shared secret adds the sender to the
\* available set, changes nothing else of the ServerState and sends the
\* sender, when connected, AssignId with the sender's own id and nothing
\* else; with any other password the ServerState is unchanged and no message
\* is sent.
C16_AnswerPassword ==
  \A h \in Handled :
     h.msg.type = "AnswerPassword"
     => IF h.msg.password = "password"
        THEN /\ h.ctx.state
                  = [server_state EXCEPT !.available_players = @ \cup {h.player}]
             /\ Reachable(h.player)
                  => h.ctx.sent
                       = <<[to |-> h.player, msg |-> AssignId(h.player)]>>
        ELSE /\ h.ctx.state = server_state
             /\ h.ctx.sent = <<>>
             /\ h.ctx.failed = <<>>

\* A message of a connected player who is not in the available set and not
\* in any match waits to be handled.
C16_Witness ==
  /\ main_rx # <<>>
  /\ Reachable(Head(main_rx))
  /\ Head(main_rx) \notin server_state.available_players
  /\ MatchesOf(server_state, Head(main_rx)) = {}
  /\ server_state.available_players # {}

\* C17: GetOpponents leaves the ServerState unchanged and sends the sender,
\* when connected, ListOpponents with exactly the available set minus the
\* sender, and nothing else; the ids listed never include a participant of an
\* Active match of the active collection (stated of the matches between two
\* players).
C17_ListOpponents ==
  \A h \in Handled :
     h.msg.type = "GetOpponents"
     => /\ h.ctx.state = server_state
        /\ Reachable(h.player)
             => h.ctx.sent
                  = <<[to |-> h.player,
                       msg |-> ListOpponents(server_state.available_players
                                               \ {h.player})]>>
        /\ \A i \in DOMAIN h.ctx.sent :
             /\ h.player \notin h.ctx.sent[i].msg.ids
             /\ \A q \in h.ctx.sent[i].msg.ids :
                  ActiveMatchesOf(server_state, q) = {}

\* C18: in an Active match between connected challenger A and guesser B, the
\* guess of B handled after k earlier guesses of B, all wrong, sends, when it
\* is wrong, MatchAttempt(m, k+1, hintCount, g) to A and
\* IncorrectGuess(m, k+1) to B, and, when it is the secret, sends
\* MatchEnded(m, k+1, hintCount, true) to A and to B, moves m to the finished
\* collection and puts A and B in the available set.
C18_GuessReplies ==
  \A h \in Handled :
     LET known == h.msg.type = "GuessAttempt"
                    /\ h.msg.id \in DOMAIN server_state.active_matches
         m == server_state.active_matches[h.msg.id]
         k == guessed[h.msg.id]
         hintCount == Len(m.hints)
         post == h.ctx.state
     IN  (/\ known
          /\ m.state = "Active"
          /\ m.guesser = h.player
          /\ m.challenger # m.guesser
          /\ Participants(m) \subseteq active_connections)
         => IF h.msg.guess # m.guess_word
            THEN /\ SentTo(h.ctx, m.challenger)
                      = {MatchAttempt(m.id, k + 1, hintCount, h.msg.guess)}
                 /\ SentTo(h.ctx, m.guesser) = {IncorrectGuess(m.id, k + 1)}
                 /\ m.id \in DOMAIN post.active_matches
            ELSE /\ SentTo(h.ctx, m.challenger)
                      = {MatchEnded(m.id, k + 1, hintCount, TRUE)}
                 /\ SentTo(h.ctx, m.guesser)
                      = {MatchEnded(m.id, k + 1, hintCount, TRUE)}
                 /\ m.id \in DOMAIN post.finished_matches
                 /\ m.id \notin DOMAIN post.active_matches
                 /\ Participants(m) \subseteq post.available_players

\* C19: a dispatch step that ends an Active match between two connected
\* players (a solving guess, the guesser's GiveUp, a participant's LeaveGame)
\* sends MatchEnded for that match to its challenger and to its guesser.
C19_MatchEndedToBoth ==
  \A h \in Handled :
     \A id \in DOMAIN server_state.active_matches :
        LET m == server_state.active_matches[id]
        IN  (/\ m.state = "Active"
             /\ m.challenger # m.guesser
             /\ Participants(m) \subseteq active_connections
             /\ RecordOf(h.ctx.state, id).state \in Terminal)
            => \A q \in Participants(m) :
                  \E msg \in SentTo(h.ctx, q) :
                     msg.type = "MatchEnded" /\ msg.id = id

\* C20: the first message put on the outbound channel of an accepted
\* connection is AskPassword: no handler's message comes before it, although
\* handle_client enters the connection in the registry before it sends
\* AskPassword; and once handle_client has returned, AskPassword has been
\* put there.
C20_AskPasswordFirst ==
  \A p \in Players :
     /\ first_sent[p] \in {"none", "AskPassword"}
     /\ first_sent[p] = "none" => (stream[p] = "none" \/ pc.player = p)

\* handle_client has entered a connection in the registry and has not sent
\* AskPassword yet, while a message of that client waits in the dispatch
\* channel.
C20_Witness ==
  /\ pc.at = "ask"
  /\ pc.player \in active_connections
  /\ main_rx # <<>>
  /\ Head(main_rx) = pc.player

\* The hints a SendHint is tried with on the matches reached.
FurtherHints == Hints \cup {"round"}

\* C30: SendHint(m, hint) for a match m of the active collection appends hint
\* as the last element of m's hints, leaves the rest of m's record unchanged
\* and sends MatchHint(m, hint), and nothing else, to m's guesser when that
\* player is connected; no other message changes the hints of a match; and
\* the hint count of every match, and the one a MatchAttempt or MatchEnded
\* carries, is the number of SendHint messages handled on the match.
C30_SendHintAppends ==
  /\ \A id \in (DOMAIN server_state.active_matches)
                 \cup (DOMAIN server_state.finished_matches) :
       Len(RecordOf(server_state, id).hints) = hinted[id]
  /\ \A p \in Players, id \in DOMAIN server_state.active_matches,
        hint \in FurtherHints :
       \A ctx \in react_to_client_msg(p, SendHint(id, hint), server_state) :
          LET m == server_state.active_matches[id]
          IN  /\ id \in DOMAIN ctx.state.active_matches
              /\ ctx.state.active_matches[id]
                   = [m EXCEPT !.hints = Append(@, hint)]
              /\ Reachable(m.guesser)
                   => ctx.sent
                        = <<[to |-> m.guesser, msg |-> MatchHint(id, hint)]>>
  /\ \A h \in Handled :
       /\ \A id \in (DOMAIN server_state.active_matches)
                      \cup (DOMAIN server_state.finished_matches) :
            (h.msg.type # "SendHint" \/ h.msg.id # id)
            => RecordOf(h.ctx.state, id).hints = RecordOf(server_state, id).hints
       /\ \A i \in DOMAIN h.ctx.sent :
            h.ctx.sent[i].msg.type \in {"MatchAttempt", "MatchEnded"}
            => h.ctx.sent[i].msg.hints = CountHints(h.msg)[h.ctx.sent[i].msg.id]

\* A message waits to be handled while a match of the active collection
\* holds a hint: a further SendHint appends after it, and a guess or the end
\* of the match reports a hint count of one.
C30_Witness ==
  /\ main_rx # <<>>
  /\ \E id \in DOMAIN server_state.active_matches :
       /\ server_state.active_matches[id].hints # <<>>
       /\ server_state.active_matches[id].state = "Active"
       /\ Participants(server_state.active_matches[id])
            \subseteq active_connections
       /\ server_state.active_matches[id].guesser = Head(main_rx)

\* The ServerState with another secret word on a match of the active
\* collection.
WithSecret(s, id, word) == [s EXCEPT !.active_matches[id].guess_word = word]

\* The ServerState without the secret word of a match.
SecretErased(s, id) ==
  IF id \in DOMAIN s.active_matches
  THEN [s EXCEPT !.active_matches[id].guess_word = "erased"]
  ELSE IF id \in DOMAIN s.finished_matches
       THEN [s EXCEPT !.finished_matches[id].guess_word = "erased"]
       ELSE s

\* What a handler leaves for a player to see of a match whose secret word the
\* player does not know: the messages sent to the player, in order, and the
\* ServerState but for the secret.
SeenBy(ctx, player_id, id) ==
  [sent |-> SelectSeq(ctx.sent, LAMBDA e : e.to = player_id),
   state |-> SecretErased(ctx.state, id)]

MaxFrames == 2
MaxDispatch == 2

\* b'\n', the byte that ends a frame.
Terminator == 10

\* The messages a peer writes where the bytes are in view: requests without
\* ids, one of them with a line feed in its text.
WireMessages ==
  {AnswerPassword("password"), AnswerPassword("pass\nword"), GetOpponents}

\* The bytes of a string in UTF-8.
Utf8(s) ==
  CASE s = "password" -> <<112, 97, 115, 115, 119, 111, 114, 100>>
    [] s = "pass\nword" -> <<112, 97, 115, 115, 10, 119, 111, 114, 100>>

\* MessagePack, a str of fewer than 32 bytes: the fixstr header 0xA0 + length,
\* then the bytes of the text as they are.
EncodeStr(s) == <<160 + Len(Utf8(s))>> \o Utf8(s)

\* The position of a variant in ClientMessage.
VariantIndex(type) ==
  CASE type = "AnswerPassword" -> 0
    [] type = "GetOpponents" -> 1
    [] type = "RequestMatch" -> 2
    [] type = "GuessAttempt" -> 3
    [] type = "SendHint" -> 4
    [] type = "GiveUp" -> 5
    [] type = "LeaveGame" -> 6

\* What MessagePack puts in front of the fields of an enum value to say which
\* variant it is, as one value above the bytes: container headers (0x80 and
\* up) and the variant's name in ASCII letters or its index below 10, so none
\* of its bytes is the terminator.
VariantHeader(type) == 256 + VariantIndex(type)

\* msg.serialize(&mut Serializer::new(&mut payload)): the variant, then its
\* fields.
Encode(msg) ==
  CASE msg.type = "AnswerPassword" ->
         <<VariantHeader(msg.type)>> \o EncodeStr(msg.password)
    [] OTHER -> <<VariantHeader(msg.type)>>

\* The write task's payload on the socket: the encoding, then b'\n'.
Frame(msg) == Encode(msg) \o <<Terminator>>

\* What rmp_serde::from_slice gives for bytes that are no ClientMessage.
DecodeError == [type |-> "DecodeError"]

\* rmp_serde::from_slice::<ClientMessage>: the message whose encoding the
\* bytes are, or an error.
Decode(bytes) ==
  LET ms == {msg \in WireMessages : Encode(msg) = bytes}
  IN  IF ms = {} THEN DecodeError ELSE CHOOSE msg \in ms : TRUE

\* read_until(b'\n'): the position of the first terminator from i on, 0 when
\* there is none yet.
RECURSIVE TerminatorFrom(_, _)
TerminatorFrom(bytes, i) ==
  IF i > Len(bytes) THEN 0
  ELSE IF bytes[i] = Terminator THEN i
  ELSE TerminatorFrom(bytes, i + 1)

\* The read loop run over bytes: the messages of the frames that decode.
RECURSIVE DecodeAll(_)
DecodeAll(bytes) ==
  LET n == TerminatorFrom(bytes, 1)
  IN  IF n = 0 THEN <<>>
      ELSE LET msg == Decode(SubSeq(bytes, 1, n - 1))
           IN  (IF msg = DecodeError THEN <<>> ELSE <<msg>>)
                 \o DecodeAll(SubSeq(bytes, n + 1, Len(bytes)))

\* Bytes that are no MessagePack value: 0xC1 is never used.
Garbage == {<<193>>}
GarbageFrame == [type |-> "garbage"]

\* A sender that puts its message in front of the waiting ones.
Enqueue_front(channel, msg) == <<msg>> \o channel

\* Sender::send on an mpsc channel: the message goes behind the waiting ones.
Enqueue(channel, msg) == Append(channel, msg)

\* A read loop that breaks when a frame does not decode.
KeepsReading_ifDecoded(msg) == msg # DecodeError

\* The Ok(n) arm of the read loop has no break: the loop goes on whether the
\* frame decoded or not.
KeepsReading(msg) == TRUE

\* The peer's write task writes the frame of a message to the socket.
PeerWrite(p) ==
  /\ stream[p] = "open"
  /\ Len(written[p]) < MaxFrames
  /\ \E msg \in WireMessages :
       /\ wire' = [wire EXCEPT ![p] = @ \o Frame(msg)]
       /\ written' = [written EXCEPT ![p] = Append(@, msg)]
  /\ UNCHANGED <<authenticated, stream, active_connections, main_rx, server_state, recorded,
                  guessed, hinted, pc, first_sent, writer, outbound,
                  shutdown_vars, client_rx, main_msg, decoded, handled>>

\* A peer writes bytes that are no message, and the terminator.
PeerWriteGarbage(p) ==
  /\ stream[p] = "open"
  /\ Len(written[p]) < MaxFrames
  /\ \E bytes \in Garbage :
       wire' = [wire EXCEPT ![p] = @ \o bytes \o <<Terminator>>]
  /\ written' = [written EXCEPT ![p] = Append(@, GarbageFrame)]
  /\ UNCHANGED <<authenticated, stream, active_connections, main_rx, server_state, recorded,
                  guessed, hinted, pc, first_sent, writer, outbound,
                  shutdown_vars, client_rx, main_msg, decoded, handled>>

\* handle_stream's read task, one turn of its loop: read_until gives the
\* bytes up to the first terminator, from_slice decodes them without the
\* terminator, and a message that decodes is sent to the connection's
\* channel; bytes that do not decode are dropped.
ReadFrame(p) ==
  /\ stream[p] = "open"
  /\ TerminatorFrom(wire[p], 1) > 0
  /\ LET n == TerminatorFrom(wire[p], 1)
         msg == Decode(SubSeq(wire[p], 1, n - 1))
     IN  /\ wire' = [wire EXCEPT ![p] = SubSeq(@, n + 1, Len(@))]
         /\ IF msg # DecodeError
            THEN /\ client_rx' = [client_rx EXCEPT ![p] = Enqueue(@, msg)]
                 /\ decoded' = [decoded EXCEPT ![p] = Append(@, msg)]
            ELSE UNCHANGED <<client_rx, decoded>>
         /\ IF KeepsReading(msg)
            THEN UNCHANGED <<stream, active_connections>>
            ELSE /\ stream' = [stream EXCEPT ![p] = "closed"]
                 /\ active_connections' = active_connections \ {p}
  /\ UNCHANGED <<authenticated, main_rx, server_state, recorded, guessed, hinted, pc,
                  first_sent, writer, outbound, shutdown_vars, main_msg,
                  written, handled>>

\* handle_client's forwarding task, one turn of its loop: the oldest message
\* of the connection's channel goes to the dispatch channel with the player
\* id.
Forward(p) ==
  /\ client_rx[p] # <<>>
  /\ Len(main_rx) < MaxDispatch
  /\ main_rx' = Enqueue(main_rx, p)
  /\ main_msg' = Enqueue(main_msg, Head(client_rx[p]))
  /\ client_rx' = [client_rx EXCEPT ![p] = Tail(@)]
  /\ UNCHANGED <<authenticated, stream, active_connections, server_state, recorded, guessed,
                  hinted, pc, first_sent, writer, outbound, shutdown_vars,
                  wire, written, decoded, handled>>

\* main, the rx.recv() branch, as Dispatch, on the message the dispatch
\* channel holds.
DispatchDecoded ==
  /\ MainPolls
  /\ main_rx # <<>>
  /\ \E ctx \in react_to_client_msg(Head(main_rx), Head(main_msg), server_state) :
       /\ server_state' = ctx.state
       /\ recorded' = Count(ctx)
       /\ guessed' = CountGuesser(Head(main_rx), ctx)
       /\ hinted' = CountHints(Head(main_msg))
       /\ first_sent' = PutAll(first_sent, ctx.sent, 1)
  /\ main_rx' = Tail(main_rx)
  /\ main_msg' = Tail(main_msg)
  /\ handled' = [handled EXCEPT ![Head(main_rx)] = Append(@, Head(main_msg))]
  /\ authenticated' = Authenticate(Head(main_rx), Head(main_msg))
  /\ UNCHANGED <<stream, active_connections, pc, writer, outbound,
                  shutdown_vars, wire, client_rx, written, decoded>>

\* The inbound stream ends, as in Close: the read task has read what the peer
\* wrote, and the forwarding task has passed on what the read task decoded.
WireClose(p) ==
  /\ wire[p] = <<>>
  /\ client_rx[p] = <<>>
  /\ Close(p)

\* Two connections, their inbound bytes, channels and tasks.
NextWire ==
  \/ \E p \in Pair : Accept(p)
  \/ \E p \in Pair : PeerWrite(p)
  \/ \E p \in Pair : PeerWriteGarbage(p)
  \/ \E p \in Pair : ReadFrame(p)
  \/ \E p \in Pair : Forward(p)
  \/ DispatchDecoded
  \/ \E p \in Pair : WireClose(p)

SpecWire == Init /\ [][NextWire]_vars

\* ------------------------------------------------------------ C25, C22

\* The send_message calls the handler under way has still to make next: the
\* message and the player it goes to.
NextSend ==
  IF pc.at = "handler"
  THEN {ctx.sent[pc.done + 1] :
          ctx \in {c \in react_to_client_msg(pc.player, pc.msg, server_state) :
                     pc.done < Len(c.sent)}}
  ELSE {}

\* C25: an outbound channel never holds more messages than its capacity.
\* While the channel the handler sends to next is full the handler stays
\* where it is, and when the handler does go on, the message is in the
\* channel: it was not dropped.
C25_OutboundBounded ==
  /\ [](\A p \in Players : outbound[p] <= OutboundCapacity)
  /\ [][\A s \in NextSend :
          /\ outbound[s.to] = OutboundCapacity => pc' = pc
          /\ pc' # pc => outbound'[s.to] = outbound[s.to] + 1]_vars

\* A handler is suspended on the full outbound channel of a connection whose
\* write task is alive.
C25_Witness ==
  \E s \in NextSend :
    /\ outbound[s.to] = OutboundCapacity
    /\ writer[s.to] \in {"running", "stalled"}

\* C22: while the main task is inside a handler it receives no other client
\* message and accepts no connection: the dispatch channel is not read, the
\* registry gets no entry, and the main task leaves the handler only by
\* returning to the select. The ServerState is written by the returning
\* handler and by nothing else.
C22_OneEventAtATime ==
  [][/\ pc.at = "handler" =>
          /\ Len(main_rx') >= Len(main_rx)
          /\ active_connections' \subseteq active_connections
          /\ \/ pc' = AtSelect
             \/ /\ pc'.at = "handler"
                /\ pc'.player = pc.player
                /\ pc'.msg = pc.msg
     /\ server_state' # server_state => pc.at = "handler" /\ pc' = AtSelect]_vars

\* A handler has made a send and not returned, while another client message
\* waits in the dispatch channel and a connection waits to be accepted.
C22_Witness ==
  /\ pc.at = "handler"
  /\ pc.done > 0
  /\ main_rx # <<>>
  /\ \E p \in Pair : stream[p] = "none"

\* ------------------------------------------------------------------ C28

\* C28: once drop_all_connections has returned, Disconnect has been put on
\* the outbound channel of every connection of the registry whose channel
\* still takes messages: a send that failed on one connection has not kept
\* the others from being told.
C28_DisconnectToAll ==
  pc.at \in {"cleanup", "exit"} =>
    \A p \in active_connections :
      writer[p] # "ended" => p \in disconnect_sent

\* ------------------------------------------------------------ C26, C27

\* The connection of p has failed: its write task has stalled or ended, or
\* its inbound stream has closed.
Failing(p) == writer[p] \in {"stalled", "ended"} \/ stream[p] = "closed"

\* The main task has left the select loop for the shutdown.
ShuttingDown == pc.at \in {"shutdown", "cleanup", "exit"}

\* C26: whatever happens to the other connections, a message that a
\* connection in good order has put on the dispatch channel is received by
\* the main task (unless the server is shut down first).
C26_DispatchGoesOn ==
  \A q \in Pair :
    [](~Failing(q)) =>
      ((main_rx # <<>> /\ Head(main_rx) = q) ~> (main_rx = <<>> \/ ShuttingDown))

\* C27: when the write task of a connection has ended on a write error, the
\* connection's player id is removed from the registry.
C27_WriteErrorDeregisters ==
  \A p \in Pair : (writer[p] = "ended") ~> (p \notin active_connections)

\* ------------------------------------------------------- C21, C23, C24

\* The messages of p waiting in the dispatch channel, oldest first.
RECURSIVE InDispatch(_, _)
InDispatch(p, i) ==
  IF i > Len(main_rx) THEN <<>>
  ELSE (IF main_rx[i] = p THEN <<main_msg[i]>> ELSE <<>>) \o InDispatch(p, i + 1)

\* The messages among the frames a peer has written.
RECURSIVE MessagesOf(_)
MessagesOf(frames) ==
  IF frames = <<>> THEN <<>>
  ELSE (IF Head(frames) = GarbageFrame THEN <<>> ELSE <<Head(frames)>>)
         \o MessagesOf(Tail(frames))

\* C21: the messages decoded on a connection are, in the order of their
\* decoding and each once, those the main task has handled, then those
\* waiting in the dispatch channel, then those waiting in the connection's
\* own channel: none is reordered, duplicated or dropped on the way.
C21_InArrivalOrder ==
  \A p \in Players :
    handled[p] \o InDispatch(p, 1) \o client_rx[p] = decoded[p]

\* Two different messages of one connection have been handled, the message
\* of another connection among them in the dispatch channel.
C21_Witness ==
  \E p, q \in Pair :
    /\ p # q
    /\ Len(handled[p]) = 2
    /\ handled[p][1] # handled[p][2]
    /\ handled[q] # <<>>

\* C23: when the read task takes a frame that does not decode, nothing goes
\* to the connection's channel or the dispatch channel, the stream stays
\* open and the player id stays in the registry, and the frames behind it
\* are left as they were, to be decoded in their turn.
C23_DecodeFailureSkipped ==
  [][\A p \in Players :
       LET n == TerminatorFrom(wire[p], 1)
       IN  (/\ n > 0
            /\ Decode(SubSeq(wire[p], 1, n - 1)) = DecodeError
            /\ Len(wire'[p]) < Len(wire[p]))
           => /\ client_rx' = client_rx
              /\ main_rx' = main_rx
              /\ main_msg' = main_msg
              /\ stream'[p] = stream[p]
              /\ p \in active_connections <=> p \in active_connections'
              /\ wire'[p] = SubSeq(wire[p], n + 1, Len(wire[p]))]_vars

\* A frame that did not decode was dropped, and the message written behind it
\* has been decoded and handled, on a connection still registered.
C23_Witness ==
  \E p \in Pair :
    /\ Len(written[p]) = 2
    /\ written[p][1] = GarbageFrame
    /\ written[p][2] # GarbageFrame
    /\ handled[p] = <<written[p][2]>>
    /\ stream[p] = "open"
    /\ p \in active_connections

\* C24: when the read task has read all that the peer wrote, the messages it
\* has decoded are the messages the peer wrote, one for one.
C24_FrameRoundTrip ==
  \A p \in Players :
    wire[p] = <<>> => decoded[p] = MessagesOf(written[p])

\* ------------------------------------------------------------------ C31

\* C31: a player id whose inbound stream has ended has no entry in the
\* registry: the forwarding task has removed it, and no entry for it comes
\* back.
C31_RegistryOnlyLive ==
  \A p \in Players : stream[p] = "closed" => p \notin active_connections

\* ------------------------------------------------------------------ C32

\* C32: a GetOpponents, RequestMatch, GuessAttempt, SendHint, GiveUp or
\* LeaveGame from a player id that has not sent a correct AnswerPassword
\* leaves the ServerState as it was and puts no message on the outbound
\* channel of another player (stated of the matches between two players).
C32_UnauthenticatedChangesNothing ==
  \A h \in Handled :
     (/\ h.player \notin authenticated
      /\ h.msg.type # "AnswerPassword"
      /\ \A id \in DOMAIN server_state.active_matches :
           server_state.active_matches[id].challenger
             # server_state.active_matches[id].guesser)
     => /\ h.ctx.state = server_state
        /\ \A q \in Players \ {h.player} : SentTo(h.ctx, q) = {}

\* ------------------------------------------------------------------ C33

\* C33: whenever the main task is between two messages, every match of the
\* active collection has state Active and every match of the finished
\* collection has state Solved, GivenUp or Cancelled (stated of the matches
\* between two players).
C33_CollectionsMatchStates ==
  /\ \A id \in DOMAIN server_state.active_matches :
       server_state.active_matches[id].challenger
           # server_state.active_matches[id].guesser
         => server_state.active_matches[id].state = "Active"
  /\ \A id \in DOMAIN server_state.finished_matches :
       server_state.finished_matches[id].state \in Terminal

\* ------------------------------------------------------------------ C34

\* C34: no match of the active or the finished collection has its challenger
\* as its guesser, and a RequestMatch that names the sender as opponent
\* changes nothing of the ServerState and is answered, when the sender is
\* connected, with BadRequest(CannotCreateMatch).
C34_NoSelfMatch ==
  /\ \A id \in DOMAIN server_state.active_matches :
       server_state.active_matches[id].challenger
         # server_state.active_matches[id].guesser
  /\ \A id \in DOMAIN server_state.finished_matches :
       server_state.finished_matches[id].challenger
         # server_state.finished_matches[id].guesser
  /\ \A h \in Handled :
       (h.msg.type = "RequestMatch" /\ h.msg.opponent = h.player)
       => /\ h.ctx.state = server_state
          /\ Reachable(h.player)
               => BadRequest("CannotCreateMatch") \in SentTo(h.ctx, h.player)

\* ------------------------------------------------------------------ C35

\* C35: handling LeaveGame from a connected player p puts Disconnect on p's
\* outbound channel as the last message of the handler, behind the
\* MatchEnded notifications it sends, and at its end every match p took part
\* in has left the active collection for the finished one and p is not in
\* the available set.
C35_DisconnectLast ==
  \A h \in Handled :
     (h.msg.type = "LeaveGame" /\ Reachable(h.player))
     => LET sent == h.ctx.sent
            n == Len(sent)
        IN  /\ n > 0
            /\ sent[n] = [to |-> h.player, msg |-> Disconnect]
            /\ \A i \in 1..(n - 1) : sent[i].msg.type = "MatchEnded"
            /\ \A id \in MatchesOf(server_state, h.player) :
                 /\ id \notin DOMAIN h.ctx.state.active_matches
                 /\ id \in DOMAIN h.ctx.state.finished_matches
            /\ h.player \notin h.ctx.state.available_players

\* ------------------------------------------------------------------ C36

\* C36: a match of the finished collection stays there with its record
\* (challenger, guesser, attempts, hints, secret word, state) as it is,
\* whatever message is handled later, and its id is never the id of a match
\* of the active collection again: its participants are matched anew only
\* under another id.
C36_FinishedRecordsKept ==
  [][\A id \in DOMAIN server_state.finished_matches :
       /\ id \in DOMAIN server_state'.finished_matches
       /\ server_state'.finished_matches[id] = server_state.finished_matches[id]
       /\ id \notin DOMAIN server_state'.active_matches]_vars

\* The participants of a finished match are in a new match under another
\* id, a guess on the new match has been handled, and the finished one is
\* still on record.
C36_Witness ==
  \E old \in DOMAIN server_state.finished_matches :
    \E new \in DOMAIN server_state.active_matches :
      /\ new # old
      /\ Participants(server_state.active_matches[new])
           = Participants(server_state.finished_matches[old])
      /\ server_state.active_matches[new].challenger
           # server_state.active_matches[new].guesser
      /\ server_state.active_matches[new].attempts > 0

==========================================================================
